---- MODULE Spec2Model ----
(***************************************************************************)
(* Grid-world RL environment (kuimaze2.rl.RLProblem over kuimaze2.mdp.MDP  *)
(* and kuimaze2.map.Map) and the tabular Q-learning agent (rl_agent.py).   *)
(*                                                                         *)
(* Numbers are exact rationals [n, d] in lowest terms with d > 0; the code *)
(* evaluates the same expressions, in the same order, in IEEE doubles.     *)
(* A State is a record [r, c]; Python's None is the record None below.     *)
(***************************************************************************)
EXTENDS Integers, Sequences, FiniteSets, TLC

\* ------------------------------------------------------------------------
\* Exact rational arithmetic
\* ------------------------------------------------------------------------
Abs(x) ==
  IF x < 0 THEN -x ELSE x

\* Every operation below takes the values of its arguments once (the
\* singleton sets bind them) and then computes on the values.
RECURSIVE GCD(_, _)
GCD(a, b) ==
  IF b = 0 THEN a
  ELSE CHOOSE g \in {GCD(y, r) : y \in {b}, r \in {a % b}} : TRUE

Reduced(n, d) ==
  LET g == GCD(Abs(n), Abs(d))
      s == IF d < 0 THEN -1 ELSE 1
  IN  [n |-> (s * n) \div g, d |-> (s * d) \div g]

Rat(n, d) ==
  CHOOSE r \in {Reduced(p, q) : p \in {n}, q \in {d}} : TRUE

LCM(a, b) ==
  (a \div GCD(a, b)) * b

Sum(x, y) ==
  LET l == LCM(x.d, y.d)
  IN  Rat(x.n * (l \div x.d) + y.n * (l \div y.d), l)

RAdd(x, y) ==
  CHOOSE r \in {Sum(a, b) : a \in {x}, b \in {y}} : TRUE

RNeg(x) ==
  CHOOSE r \in {[n |-> -a.n, d |-> a.d] : a \in {x}} : TRUE

RSub(x, y) ==
  RAdd(x, RNeg(y))

Product(x, y) ==
  LET a == Rat(x.n, y.d)
      b == Rat(y.n, x.d)
  IN  Rat(a.n * b.n, a.d * b.d)

RMul(x, y) ==
  CHOOSE r \in {Product(a, b) : a \in {x}, b \in {y}} : TRUE

RDiv(x, y) ==
  RMul(x, Rat(y.d, y.n))

RLess(x, y) ==
  LET l == LCM(x.d, y.d)
  IN  x.n * (l \div x.d) < y.n * (l \div y.d)

RLeq(x, y) ==
  x = y \/ RLess(x, y)

Zero ==
  Rat(0, 1)

One ==
  Rat(1, 1)

\* the largest element of a non-empty set of rationals (Python's max)
RMax(S) ==
  CHOOSE x \in S : \A y \in S : RLeq(y, x)

\* ------------------------------------------------------------------------
\* kuimaze2.map: State, Action, Role, Map
\* ------------------------------------------------------------------------
None ==
  [r |-> -1, c |-> -1]

UP ==
  0

RIGHT ==
  1

DOWN ==
  2

LEFT ==
  3

Action ==
  {UP, RIGHT, DOWN, LEFT}

\* to_vec with the column deltas of RIGHT and LEFT exchanged
to_vec_swapped(a) ==
  CASE a = UP    -> [r |-> -1, c |-> 0]
    [] a = RIGHT -> [r |-> 0, c |-> -1]
    [] a = DOWN  -> [r |-> 1, c |-> 0]
    [] a = LEFT  -> [r |-> 0, c |-> 1]

\* Action.to_vec
to_vec(a) ==
  CASE a = UP    -> [r |-> -1, c |-> 0]
    [] a = RIGHT -> [r |-> 0, c |-> 1]
    [] a = DOWN  -> [r |-> 1, c |-> 0]
    [] a = LEFT  -> [r |-> 0, c |-> -1]

\* MazeVec.__add__
vec_add(s, v) ==
  [r |-> s.r + v.r, c |-> s.c + v.c]

\* A map is what Map.from_string builds: rows of role characters.
height(m) ==
  Len(m)

width(m) ==
  Len(m[1])

\* Map.all_states, in its row-major order
all_states(m) ==
  [k \in 1..(height(m) * width(m)) |->
      [r |-> (k - 1) \div width(m), c |-> (k - 1) % width(m)]]

Positions(m) ==
  {all_states(m)[k] : k \in DOMAIN all_states(m)}

\* Map.__getitem__ followed by .role: an undefined cell is a wall
in_grid(m, s) ==
  /\ 0 <= s.r /\ s.r < height(m)
  /\ 0 <= s.c /\ s.c < width(m)

role_at(m, s) ==
  IF in_grid(m, s) THEN m[s.r + 1][s.c + 1] ELSE "#"

\* Cell.is_free
is_free(m, s) ==
  role_at(m, s) # "#"

\* Map._shall_have_border on the cells of a freshly parsed map
shall_have_border(m, s, a) ==
  \/ role_at(m, s) = "#"
  \/ is_free(m, s) # is_free(m, vec_add(s, to_vec(a)))

\* Map.transition_possible: the border that Map._complete stored for the
\* cell; a key outside the grid reads as a wall cell with Border.NONE
transition_possible(m, s, a) ==
  IF in_grid(m, s) THEN ~shall_have_border(m, s, a) ELSE TRUE

\* get_transition_result that moves whatever borders the cell has
map_get_transition_result_through(m, s, a) ==
  vec_add(s, to_vec(a))

\* Map.get_transition_result
map_get_transition_result(m, s, a) ==
  IF ~transition_possible(m, s, a) THEN s ELSE vec_add(s, to_vec(a))

\* Map.start (maps with at most one start cell)
map_start(m) ==
  LET starts == SelectSeq(all_states(m), LAMBDA s : role_at(m, s) = "S")
  IN  IF Len(starts) > 0 THEN starts[1] ELSE None

\* Map.goals
map_goals(m) ==
  {s \in Positions(m) : role_at(m, s) = "G"}

\* Map.dangers
map_dangers(m) ==
  {s \in Positions(m) : role_at(m, s) = "D"}

\* ------------------------------------------------------------------------
\* kuimaze2.mdp: Rewards, Confusion, action models, MDP
\* ------------------------------------------------------------------------
NONE ==
  0

BACKWARD ==
  2

Confusion ==
  {NONE, RIGHT, BACKWARD, LEFT}

\* apply_to wrapping modulo three instead of four
apply_to_mod3(conf, a) ==
  (a + conf) % 3

\* Confusion.apply_to
apply_to(conf, a) ==
  (a + conf) % 4

\* StochasticActions.__init__: the weights renormalised, forward the rest
confusion_probs(forward, left, right, backward) ==
  LET total == RAdd(RAdd(RAdd(forward, left), right), backward)
      l == RDiv(left, total)
      r == RDiv(right, total)
      b == RDiv(backward, total)
      f == RSub(RSub(RSub(One, l), r), b)
  IN  [k \in Confusion |->
         CASE k = NONE     -> f
           [] k = RIGHT    -> r
           [] k = BACKWARD -> b
           [] k = LEFT     -> l]

\* the assert of StochasticActions.__init__: abs(1 - total) < 1e-6
weights_accepted(forward, left, right, backward) ==
  LET total == RAdd(RAdd(RAdd(forward, left), right), backward)
      diff == RSub(One, total)
      adiff == IF RLess(diff, Zero) THEN RNeg(diff) ELSE diff
  IN  RLess(adiff, Rat(1, 1000000))

\* get_actions_probs with the confusions counted from one: the forward
\* weight lands on the action to the right
get_actions_probs_shifted(model, a) ==
  IF model.kind = "deterministic"
  THEN <<[action |-> a, prob |-> One]>>
  ELSE [k \in 1..4 |-> [action |-> apply_to(k, a),
                         prob |-> model.confusion_probs[k - 1]]]

\* DeterministicActions / StochasticActions .get_actions_probs, as the
\* list of (actual action, probability) items in insertion order
get_actions_probs(model, a) ==
  IF model.kind = "deterministic"
  THEN <<[action |-> a, prob |-> One]>>
  ELSE [k \in 1..4 |-> [action |-> apply_to(k - 1, a),
                         prob |-> model.confusion_probs[k - 1]]]

\* sample_action whose deterministic model turns the action to the right
sample_action_turned(model, a) ==
  IF model.kind = "deterministic"
  THEN {apply_to(RIGHT, a)}
  ELSE {apply_to(k, a) : k \in {x \in Confusion :
                                   RLess(Zero, model.confusion_probs[x])}}

\* the outcomes sample_action can produce: random.choices never draws an
\* item of weight zero
sample_action(model, a) ==
  IF model.kind = "deterministic"
  THEN {a}
  ELSE {apply_to(k, a) : k \in {x \in Confusion :
                                   RLess(Zero, model.confusion_probs[x])}}

\* MDP.get_states: the free cells in iteration (row-major) order
get_states(m) ==
  SelectSeq(all_states(m), LAMBDA s : is_free(m, s))

States(m) ==
  {get_states(m)[k] : k \in DOMAIN get_states(m)}

\* MDP._is_goal, MDP._is_danger, MDP.is_terminal
is_goal(m, s) ==
  s \in map_goals(m)

is_danger(m, s) ==
  s \in map_dangers(m)

is_terminal(m, s) ==
  is_goal(m, s) \/ is_danger(m, s)

\* get_reward without the danger branch
get_reward_no_danger(m, rw, s) ==
  IF is_goal(m, s) THEN rw.goal
  ELSE rw.normal

\* MDP.get_reward
get_reward(m, rw, s) ==
  IF is_goal(m, s) THEN rw.goal
  ELSE IF is_danger(m, s) THEN rw.danger
  ELSE rw.normal

\* _get_transition_result without the terminal check
mdp_get_transition_result_no_terminal(m, s, a) ==
  map_get_transition_result(m, s, a)

\* MDP._get_transition_result
mdp_get_transition_result(m, s, a) ==
  IF is_terminal(m, s) THEN None ELSE map_get_transition_result(m, s, a)

\* get_next_states_and_probs applying the intended action in every entry
get_next_states_and_probs_intended(m, model, s, a) ==
  LET actions_probs == get_actions_probs(model, a)
  IN  [k \in DOMAIN actions_probs |->
         [state |-> mdp_get_transition_result(m, s, a),
          prob |-> actions_probs[k].prob]]

\* MDP.get_next_states_and_probs: one (next state, probability) item per
\* item of the action model's get_actions_probs, in its order
get_next_states_and_probs(m, model, s, a) ==
  LET actions_probs == get_actions_probs(model, a)
  IN  [k \in DOMAIN actions_probs |->
         [state |-> mdp_get_transition_result(m, s, actions_probs[k].action),
          prob |-> actions_probs[k].prob]]

\* ------------------------------------------------------------------------
\* Construction inputs
\* ------------------------------------------------------------------------
\* Map.from_string("SG"), ("S.G"), ("G"), ("S."), ("S# / DG")
MapSG ==
  <<<<"S", "G">>>>

MapSdotG ==
  <<<<"S", ".", "G">>>>

MapG ==
  <<<<"G">>>>

MapNoGoal ==
  <<<<"S", ".">>>>

MapWall ==
  <<<<"S", "#">>, <<"D", "G">>>>

Maps ==
  {MapSG, MapSdotG, MapG, MapNoGoal, MapWall}

\* Rewards(goal=10, danger=-10, normal=-5) of the tests, and the default
\* Rewards(goal=1.0, danger=-1.0, normal=-0.04)
TestRewards ==
  [goal |-> Rat(10, 1), danger |-> Rat(-10, 1), normal |-> Rat(-5, 1)]

DefaultRewards ==
  [goal |-> Rat(1, 1), danger |-> Rat(-1, 1), normal |-> Rat(-1, 25)]

RewardsInputs ==
  {TestRewards, DefaultRewards}

\* action_probs: absent (deterministic), the dict of rl_agent.py's main
\* (forward=0.8, left=0.1, right=0.1, backward=0.0), a dict of four positive
\* weights whose sum is 1 + 1e-7, one whose sum is 1 + 1e-6, and one whose
\* sum is 1.1
NoActionProbs ==
  [given |-> FALSE, forward |-> One, left |-> Zero, right |-> Zero,
   backward |-> Zero]

MainActionProbs ==
  [given |-> TRUE, forward |-> Rat(4, 5), left |-> Rat(1, 10),
   right |-> Rat(1, 10), backward |-> Zero]

TiltedActionProbs ==
  [given |-> TRUE, forward |-> Rat(7000001, 10000000), left |-> Rat(1, 10),
   right |-> Rat(1, 10), backward |-> Rat(1, 10)]

EdgeActionProbs ==
  [given |-> TRUE, forward |-> Rat(800001, 1000000), left |-> Rat(1, 10),
   right |-> Rat(1, 10), backward |-> Zero]

BadActionProbs ==
  [given |-> TRUE, forward |-> Rat(4, 5), left |-> Rat(1, 10),
   right |-> Rat(1, 10), backward |-> Rat(1, 10)]

ActionProbsInputs ==
  {NoActionProbs, MainActionProbs, TiltedActionProbs, EdgeActionProbs,
   BadActionProbs}

\* MDP.__init__: the action model chosen from action_probs
make_actions_model(ap) ==
  IF ~ap.given
  THEN [kind |-> "deterministic", confusion_probs |-> [k \in Confusion |-> Zero]]
  ELSE [kind |-> "stochastic",
        confusion_probs |->
          confusion_probs(ap.forward, ap.left, ap.right, ap.backward)]

\* construction that leaves the weights unchecked
construct_result_unchecked(m, ap) ==
  IF map_goals(m) = {} THEN "StopIteration"
  ELSE "none"

\* construction that takes its first state from the start cell, not a goal
construct_result_from_start(m, ap) ==
  IF ap.given /\ ~weights_accepted(ap.forward, ap.left, ap.right, ap.backward)
  THEN "AssertionError"
  ELSE IF map_start(m) = None THEN "StopIteration"
  ELSE "none"

\* RLProblem.__init__: what construction raises, "none" when it succeeds
construct_result(m, ap) ==
  IF ap.given /\ ~weights_accepted(ap.forward, ap.left, ap.right, ap.backward)
  THEN "AssertionError"
  ELSE IF map_goals(m) = {} THEN "StopIteration"
  ELSE "none"

\* ------------------------------------------------------------------------
\* kuimaze2.rl.RLProblem: reset and step as functions of the episode state
\* ------------------------------------------------------------------------
\* reset with random_start taking priority over an explicit state
reset_random_first(m, state, random_start, pick) ==
  LET cur == IF random_start THEN pick
             ELSE IF state # None THEN state
             ELSE map_start(m)
  IN  [current_state |-> cur,
       episode_finished |-> FALSE,
       error |-> IF cur = None THEN "ResetImpossibleError" ELSE "none",
       returned |-> cur # None,
       ret_state |-> cur]

\* reset without the check of the resolved state
reset_unchecked(m, state, random_start, pick) ==
  LET cur == IF state # None THEN state
             ELSE IF random_start THEN pick
             ELSE map_start(m)
  IN  [current_state |-> cur,
       episode_finished |-> FALSE,
       error |-> "none",
       returned |-> TRUE,
       ret_state |-> cur]

\* reset that marks the episode finished when it starts in a terminal state
reset_finished_if_terminal(m, state, random_start, pick) ==
  LET cur == IF state # None THEN state
             ELSE IF random_start THEN pick
             ELSE map_start(m)
  IN  [current_state |-> cur,
       episode_finished |-> is_terminal(m, cur),
       error |-> IF cur = None THEN "ResetImpossibleError" ELSE "none",
       returned |-> cur # None,
       ret_state |-> cur]

\* RLProblem.reset(state, random_start); pick is random.choice's draw
reset(m, state, random_start, pick) ==
  LET cur == IF state # None THEN state
             ELSE IF random_start THEN pick
             ELSE map_start(m)
  IN  [current_state |-> cur,
       episode_finished |-> FALSE,
       error |-> IF cur = None THEN "ResetImpossibleError" ELSE "none",
       returned |-> cur # None,
       ret_state |-> cur]

\* step without the check of the finished flag
step_unguarded(m, rw, cur, fin, actual) ==
  IF cur = None
  THEN [current_state |-> cur, episode_finished |-> fin,
        error |-> "TypeError", returned |-> FALSE,
        ret_state |-> None, ret_reward |-> Zero, ret_finished |-> FALSE]
  ELSE LET finished == IF is_terminal(m, cur) THEN TRUE ELSE fin
           reward == get_reward(m, rw, cur)
           next == mdp_get_transition_result(m, cur, actual)
       IN  [current_state |-> next, episode_finished |-> finished,
            error |-> "none", returned |-> TRUE,
            ret_state |-> next, ret_reward |-> reward,
            ret_finished |-> finished]

\* step that hands out the reward of the state entered
step_reward_entered(m, rw, cur, fin, actual) ==
  IF fin
  THEN [current_state |-> cur, episode_finished |-> fin,
        error |-> "NeedsResetError", returned |-> FALSE,
        ret_state |-> None, ret_reward |-> Zero, ret_finished |-> FALSE]
  ELSE IF cur = None
  THEN [current_state |-> cur, episode_finished |-> fin,
        error |-> "TypeError", returned |-> FALSE,
        ret_state |-> None, ret_reward |-> Zero, ret_finished |-> FALSE]
  ELSE LET finished == IF is_terminal(m, cur) THEN TRUE ELSE fin
           next == mdp_get_transition_result(m, cur, actual)
           reward == get_reward(m, rw, next)
       IN  [current_state |-> next, episode_finished |-> finished,
            error |-> "none", returned |-> TRUE,
            ret_state |-> next, ret_reward |-> reward,
            ret_finished |-> finished]

\* step that finishes the episode on entering a terminal state
step_finish_on_entry(m, rw, cur, fin, actual) ==
  IF fin
  THEN [current_state |-> cur, episode_finished |-> fin,
        error |-> "NeedsResetError", returned |-> FALSE,
        ret_state |-> None, ret_reward |-> Zero, ret_finished |-> FALSE]
  ELSE IF cur = None
  THEN [current_state |-> cur, episode_finished |-> fin,
        error |-> "TypeError", returned |-> FALSE,
        ret_state |-> None, ret_reward |-> Zero, ret_finished |-> FALSE]
  ELSE LET reward == get_reward(m, rw, cur)
           next == mdp_get_transition_result(m, cur, actual)
           finished == IF is_terminal(m, next) THEN TRUE ELSE fin
       IN  [current_state |-> next, episode_finished |-> finished,
            error |-> "none", returned |-> TRUE,
            ret_state |-> next, ret_reward |-> reward,
            ret_finished |-> finished]

\* RLProblem.step(action); actual is the action sample_action drew.
\* With no current state (None) the map lookup raises TypeError before
\* the cursor is assigned.
step(m, rw, cur, fin, actual) ==
  IF fin
  THEN [current_state |-> cur, episode_finished |-> fin,
        error |-> "NeedsResetError", returned |-> FALSE,
        ret_state |-> None, ret_reward |-> Zero, ret_finished |-> FALSE]
  ELSE IF cur = None
  THEN [current_state |-> cur, episode_finished |-> fin,
        error |-> "TypeError", returned |-> FALSE,
        ret_state |-> None, ret_reward |-> Zero, ret_finished |-> FALSE]
  ELSE LET finished == IF is_terminal(m, cur) THEN TRUE ELSE fin
           reward == get_reward(m, rw, cur)
           next == mdp_get_transition_result(m, cur, actual)
       IN  [current_state |-> next, episode_finished |-> finished,
            error |-> "none", returned |-> TRUE,
            ret_state |-> next, ret_reward |-> reward,
            ret_finished |-> finished]

\* RLProblem.get_action_space(): the list of all actions
get_action_space ==
  Action

\* sum(action_probs.values()) over the items of the dictionary
RECURSIVE sum_values(_)
sum_values(items) ==
  IF items = <<>> THEN Zero
  ELSE RAdd(items[1].prob, sum_values(Tail(items)))

\* The action_probs arguments of RLProblem.sample_action: no argument, an
\* empty dictionary, and dictionaries as items in insertion order. All
\* weights are dyadic, so the float sum is the exact sum.
NoDist ==
  [given |-> FALSE, items |-> <<>>]

EmptyDist ==
  [given |-> TRUE, items |-> <<>>]

UniformDist ==
  [given |-> TRUE,
   items |-> [i \in 1..4 |-> [action |-> i - 1, prob |-> Rat(1, 4)]]]

SingleDist(a) ==
  [given |-> TRUE, items |-> <<[action |-> a, prob |-> One]>>]

UpOnlyDist ==
  [given |-> TRUE,
   items |-> [i \in 1..4 |->
                [action |-> i - 1, prob |-> IF i = 1 THEN One ELSE Zero]]]

SplitDist ==
  [given |-> TRUE,
   items |-> <<[action |-> LEFT, prob |-> Zero],
               [action |-> RIGHT, prob |-> Rat(1, 2)],
               [action |-> DOWN, prob |-> Rat(1, 2)]>>]

HalfDist ==
  [given |-> TRUE, items |-> <<[action |-> UP, prob |-> Rat(1, 2)]>>]

DistInputs ==
  {NoDist, EmptyDist, UniformDist, UpOnlyDist, SplitDist, HalfDist}
    \cup {SingleDist(a) : a \in Action}

\* sample_action drawing among all the keys, whatever their weight
rl_sample_action_any_key(dist) ==
  IF ~dist.given \/ dist.items = <<>>
  THEN [error |-> "none", actions |-> get_action_space]
  ELSE IF sum_values(dist.items) # One
  THEN [error |-> "AssertionError", actions |-> {}]
  ELSE [error |-> "none",
        actions |-> {dist.items[i].action : i \in DOMAIN dist.items}]

\* RLProblem.sample_action(action_probs): the error it raises and the set
\* of actions it can return. random.choices never draws a key of weight 0.
rl_sample_action(dist) ==
  IF ~dist.given \/ dist.items = <<>>
  THEN [error |-> "none", actions |-> get_action_space]
  ELSE IF sum_values(dist.items) # One
  THEN [error |-> "AssertionError", actions |-> {}]
  ELSE [error |-> "none",
        actions |-> {dist.items[i].action :
                       i \in {j \in DOMAIN dist.items :
                                RLess(Zero, dist.items[j].prob)}}]

\* ------------------------------------------------------------------------
\* rl_agent.RLAgent: the Q-table and its update
\* ------------------------------------------------------------------------
\* RLAgent.__init__ defaults: alpha=0.1, gamma=0.9
Alpha ==
  Rat(1, 10)

Gamma ==
  Rat(9, 10)

\* RLAgent.__init__: epsilon, epsilon_min, epsilon_decay
Epsilon ==
  One

EpsilonMin ==
  Rat(1, 100)

EpsilonDecay ==
  Rat(199, 200)

\* init_q_table with rows for the non-terminal states only
init_q_table_non_terminal(m) ==
  [s \in {x \in States(m) : ~is_terminal(m, x)} |-> [a \in Action |-> Zero]]

\* RLAgent.init_q_table
init_q_table(m) ==
  [s \in States(m) |-> [a \in Action |-> Zero]]

\* get_best_action_for_state returning an action of least value
get_best_action_for_state_min(q, s) ==
  CHOOSE a \in Action :
    /\ \A b \in Action : RLeq(q[s][a], q[s][b])
    /\ \A b \in Action : b < a => RLess(q[s][a], q[s][b])

\* get_best_action_for_state returning the last key of maximal value
get_best_action_for_state_last(q, s) ==
  CHOOSE a \in Action :
    /\ \A b \in Action : RLeq(q[s][b], q[s][a])
    /\ \A b \in Action : b > a => RLess(q[s][b], q[s][a])

\* RLAgent.get_best_action_for_state: max(q_values, key=q_values.get) is the
\* first key, in the order UP, RIGHT, DOWN, LEFT, whose value is maximal
get_best_action_for_state(q, s) ==
  CHOOSE a \in Action :
    /\ \A b \in Action : RLeq(q[s][b], q[s][a])
    /\ \A b \in Action : b < a => RLess(q[s][b], q[s][a])

\* RLAgent.choose_action: the actions it can return; random.random() lies
\* in [0, 1), so it explores when epsilon > 0 and exploits when epsilon < 1
choose_action(q, epsilon, s) ==
  (IF RLess(Zero, epsilon) THEN Action ELSE {})
    \cup (IF RLess(epsilon, One) THEN {get_best_action_for_state(q, s)} ELSE {})

\* RLAgent.extract_policy
extract_policy(q, m) ==
  [s \in States(m) |-> get_best_action_for_state(q, s)]

\* the decay of epsilon without the floor epsilon_min
decay_epsilon_unfloored(epsilon) ==
  RMul(epsilon, EpsilonDecay)

\* learn_policy: max(self.epsilon_min, self.current_epsilon * self.epsilon_decay)
decay_epsilon(epsilon) ==
  LET decayed == RMul(epsilon, EpsilonDecay)
  IN  IF RLess(decayed, EpsilonMin) THEN EpsilonMin ELSE decayed

\* update_q_value that assigns the new value to the whole row of state
update_q_value_row(q, alpha, gamma, state, action, reward, next_state) ==
  IF state \notin DOMAIN q \/ (next_state # None /\ next_state \notin DOMAIN q)
  THEN [q_table |-> q, error |-> "KeyError"]
  ELSE LET current_q == q[state][action]
           next_max_q == IF next_state # None
                         THEN RMax({q[next_state][b] : b \in DOMAIN q[next_state]})
                         ELSE Zero
           td_target == RAdd(reward, RMul(gamma, next_max_q))
           td_error == RSub(td_target, current_q)
       IN  [q_table |-> [q EXCEPT ![state] =
                           [b \in DOMAIN q[state] |->
                              RAdd(current_q, RMul(alpha, td_error))]],
            error |-> "none"]

\* update_q_value that bootstraps from the action taken, not from the maximum
update_q_value_same_action(q, alpha, gamma, state, action, reward, next_state) ==
  IF state \notin DOMAIN q \/ (next_state # None /\ next_state \notin DOMAIN q)
  THEN [q_table |-> q, error |-> "KeyError"]
  ELSE LET current_q == q[state][action]
           next_max_q == IF next_state # None
                         THEN q[next_state][action]
                         ELSE Zero
           td_target == RAdd(reward, RMul(gamma, next_max_q))
           td_error == RSub(td_target, current_q)
       IN  [q_table |-> [q EXCEPT ![state][action] =
                                    RAdd(current_q, RMul(alpha, td_error))],
            error |-> "none"]

\* RLAgent.update_q_value; a missing key raises KeyError before the write
update_q_value(q, alpha, gamma, state, action, reward, next_state) ==
  IF state \notin DOMAIN q \/ (next_state # None /\ next_state \notin DOMAIN q)
  THEN [q_table |-> q, error |-> "KeyError"]
  ELSE LET current_q == q[state][action]
           next_max_q == IF next_state # None
                         THEN RMax({q[next_state][b] : b \in DOMAIN q[next_state]})
                         ELSE Zero
           td_target == RAdd(reward, RMul(gamma, next_max_q))
           td_error == RSub(td_target, current_q)
       IN  [q_table |-> [q EXCEPT ![state][action] =
                                    RAdd(current_q, RMul(alpha, td_error))],
            error |-> "none"]

\* ------------------------------------------------------------------------
\* State
\* ------------------------------------------------------------------------
VARIABLES
  map,               \* RLProblem._mdp._map
  rewards,           \* RLProblem._mdp._rewards
  actions_model,     \* RLProblem._mdp._actions_model
  action_probs,      \* the action_probs argument of RLProblem(...)
  construct_error,   \* what RLProblem(...) raised, "none" if it succeeded
  current_state,     \* RLProblem._current_state
  episode_finished,  \* RLProblem._episode_finished
  last,              \* the most recent call on the environment
  prev,              \* the call before it
  q_table,           \* RLAgent.q_table
  qcall,             \* the most recent call on the agent
  n_updates,         \* how many update_q_value calls were made
  n_episodes,        \* how many run_episode calls were made
  current_epsilon,   \* RLAgent.current_epsilon
  pc,                \* where the agent is: "idle", in run_episode, in learn_policy
  ep,                \* the locals of the run_episode in progress
  lp,                \* the locals of the learn_policy in progress
  mcall              \* the most recent query of the MDP or its action model

env_vars ==
  <<map, rewards, actions_model, action_probs, construct_error,
    current_state, episode_finished, last, prev>>

agent_vars ==
  <<q_table, qcall, n_updates, n_episodes, current_epsilon, pc, ep, lp>>

vars ==
  <<map, rewards, actions_model, action_probs, construct_error,
    current_state, episode_finished, last, prev, q_table, qcall, n_updates,
    n_episodes, current_epsilon, pc, ep, lp, mcall>>

NoCall ==
  [op |-> "none", state |-> None, random_start |-> FALSE, action |-> -1,
   actual |-> -1, pre_state |-> None, pre_finished |-> TRUE,
   error |-> "none", returned |-> FALSE, ret_state |-> None,
   ret_reward |-> Zero, ret_finished |-> FALSE]

NoMCall ==
  [op |-> "none", state |-> None, conf |-> -1, action |-> -1, actual |-> -1,
   ret_reward |-> Zero, result |-> <<>>, dist |-> NoDist, error |-> "none"]

NoQCall ==
  [op |-> "none", state |-> None, action |-> -1, reward |-> Zero,
   next_state |-> None, pre_table |-> <<>>, error |-> "none",
   policy |-> <<>>, ret_reward |-> Zero, converged |-> FALSE,
   episode_rewards |-> <<>>]

\* run_episode's locals before the call: total_reward, episode_finished, t,
\* state, path, and whether learn_policy is the caller
NoEpisode ==
  [total_reward |-> Zero, episode_finished |-> FALSE, t |-> 0,
   state |-> None, path |-> <<>>, in_learn |-> FALSE]

\* learn_policy's locals before the call: episode, episode_rewards,
\* final_policy (unbound until the first extract_policy) and whether the
\* loop was left by break
NoLearn ==
  [episode |-> 0, episode_rewards |-> <<>>, final_policy |-> <<>>,
   converged |-> FALSE]

\* how many update_q_value calls a run makes
MaxUpdates ==
  2

\* RLProblem.__init__ over the construction inputs, then RLAgent.__init__
Init ==
  /\ map \in Maps
  /\ rewards \in RewardsInputs
  /\ action_probs \in ActionProbsInputs
  /\ construct_error = construct_result(map, action_probs)
  /\ actions_model = make_actions_model(action_probs)
  /\ current_state \in (IF construct_error = "none" THEN map_goals(map) ELSE {None})
  /\ episode_finished = TRUE
  /\ last = NoCall
  /\ prev = NoCall
  /\ q_table = (IF construct_error = "none" THEN init_q_table(map) ELSE <<>>)
  /\ qcall = NoQCall
  /\ n_updates = 0
  /\ n_episodes = 0
  /\ current_epsilon = Epsilon
  /\ pc = "idle"
  /\ ep = NoEpisode
  /\ lp = NoLearn
  /\ mcall = NoMCall

\* a call of RLProblem.reset
Reset ==
  /\ construct_error = "none"
  /\ \E state \in Positions(map) \cup {None}, random_start \in BOOLEAN :
       \E pick \in (IF random_start THEN States(map) ELSE {None}) :
         \E res \in {reset(map, state, random_start, pick)} :
             /\ current_state' = res.current_state
             /\ episode_finished' = res.episode_finished
             /\ last' = [NoCall EXCEPT !.op = "reset",
                                       !.state = state,
                                       !.random_start = random_start,
                                       !.pre_state = current_state,
                                       !.pre_finished = episode_finished,
                                       !.error = res.error,
                                       !.returned = res.returned,
                                       !.ret_state = res.ret_state]
  /\ prev' = last
  /\ UNCHANGED <<map, rewards, actions_model, action_probs, construct_error>>
  /\ UNCHANGED agent_vars
  /\ UNCHANGED mcall

\* a call of RLProblem.step
Step ==
  /\ construct_error = "none"
  /\ \E action \in Action :
       \E actual \in sample_action(actions_model, action) :
         \E res \in {step(map, rewards, current_state, episode_finished, actual)} :
             /\ current_state' = res.current_state
             /\ episode_finished' = res.episode_finished
             /\ last' = [NoCall EXCEPT !.op = "step",
                                       !.action = action,
                                       !.actual = IF res.returned THEN actual ELSE -1,
                                       !.pre_state = current_state,
                                       !.pre_finished = episode_finished,
                                       !.error = res.error,
                                       !.returned = res.returned,
                                       !.ret_state = res.ret_state,
                                       !.ret_reward = res.ret_reward,
                                       !.ret_finished = res.ret_finished]
  /\ prev' = last
  /\ UNCHANGED <<map, rewards, actions_model, action_probs, construct_error>>
  /\ UNCHANGED agent_vars
  /\ UNCHANGED mcall

Next ==
  \/ Reset
  \/ Step

Spec ==
  Init /\ [][Next]_vars

\* ------------------------------------------------------------------------
\* The queries of the MDP and of its action model
\* ------------------------------------------------------------------------
\* a call of MDP.get_next_states_and_probs
GetNextStatesAndProbs ==
  /\ construct_error = "none"
  /\ \E state \in States(map), action \in Action :
       mcall' = [NoMCall EXCEPT
                   !.op = "get_next_states_and_probs",
                   !.state = state,
                   !.action = action,
                   !.result = get_next_states_and_probs(map, actions_model,
                                                        state, action)]
  /\ UNCHANGED env_vars
  /\ UNCHANGED agent_vars

\* a call of get_actions_probs on the MDP's action model
GetActionsProbs ==
  /\ construct_error = "none"
  /\ \E action \in Action :
       mcall' = [NoMCall EXCEPT
                   !.op = "get_actions_probs",
                   !.action = action,
                   !.result = get_actions_probs(actions_model, action)]
  /\ UNCHANGED env_vars
  /\ UNCHANGED agent_vars

\* a call of sample_action on the MDP's action model
SampleAction ==
  /\ construct_error = "none"
  /\ \E action \in Action :
       \E actual \in sample_action(actions_model, action) :
         mcall' = [NoMCall EXCEPT
                     !.op = "sample_action",
                     !.action = action,
                     !.actual = actual]
  /\ UNCHANGED env_vars
  /\ UNCHANGED agent_vars

\* a call of MDP.get_reward
GetReward ==
  /\ construct_error = "none"
  /\ \E state \in States(map) :
       mcall' = [NoMCall EXCEPT
                   !.op = "get_reward",
                   !.state = state,
                   !.ret_reward = get_reward(map, rewards, state)]
  /\ UNCHANGED env_vars
  /\ UNCHANGED agent_vars

\* a call of Confusion.apply_to, which needs no environment
ApplyTo ==
  /\ \E conf \in Confusion, action \in Action :
       mcall' = [NoMCall EXCEPT
                   !.op = "apply_to",
                   !.conf = conf,
                   !.action = action,
                   !.actual = apply_to(conf, action)]
  /\ UNCHANGED env_vars
  /\ UNCHANGED agent_vars

\* a call of RLProblem.sample_action, which returns or raises
RLSampleAction ==
  /\ construct_error = "none"
  /\ \E dist \in DistInputs :
       \E res \in {rl_sample_action(dist)} :
         \/ /\ res.error = "none"
            /\ \E a \in res.actions :
                 mcall' = [NoMCall EXCEPT !.op = "rl_sample_action",
                                          !.dist = dist,
                                          !.actual = a]
         \/ /\ res.error # "none"
            /\ mcall' = [NoMCall EXCEPT !.op = "rl_sample_action",
                                        !.dist = dist,
                                        !.error = res.error]
  /\ UNCHANGED env_vars
  /\ UNCHANGED agent_vars

NextMDP ==
  \/ GetNextStatesAndProbs
  \/ GetActionsProbs
  \/ SampleAction
  \/ RLSampleAction
  \/ GetReward
  \/ ApplyTo

SpecMDP ==
  Init /\ [][NextMDP]_vars

\* ------------------------------------------------------------------------
\* The agent's update called directly, with any arguments
\* ------------------------------------------------------------------------
AgentMaps ==
  {MapSG, MapSdotG, MapG, MapWall}

\* the rewards a caller passes: those the environment hands out
RewardValues(rw) ==
  {rw.goal, rw.danger, rw.normal}

InitAgent ==
  /\ Init
  /\ construct_error = "none"
  /\ map \in AgentMaps
  /\ rewards = TestRewards
  /\ actions_model.kind = "deterministic"

\* a call of RLAgent.update_q_value
UpdateQ ==
  /\ pc = "idle"
  /\ n_updates < MaxUpdates
  /\ \E state \in Positions(map) \cup {None}, action \in Action,
        reward \in RewardValues(rewards),
        next_state \in Positions(map) \cup {None} :
       \E res \in {update_q_value(q_table, Alpha, Gamma, state, action,
                                   reward, next_state)} :
         /\ q_table' = res.q_table
         /\ qcall' = [NoQCall EXCEPT !.op = "update_q_value",
                                      !.state = state,
                                      !.action = action,
                                      !.reward = reward,
                                      !.next_state = next_state,
                                      !.pre_table = q_table,
                                      !.error = res.error]
  /\ n_updates' = n_updates + 1
  /\ UNCHANGED <<n_episodes, current_epsilon, pc, ep, lp>>
  /\ UNCHANGED env_vars
  /\ UNCHANGED mcall

NextAgent ==
  UpdateQ

SpecAgent ==
  InitAgent /\ [][NextAgent]_vars

\* ------------------------------------------------------------------------
\* The agent learning: run_episode and learn_policy step by step, with
\* choose_action and extract_policy called in between
\* ------------------------------------------------------------------------
\* T_MAX, MAX_EPISODES and the literals 100 and 200 of learn_policy's
\* convergence test are 200, 1000, 100 and 200 in the source; the model runs
\* the same loops with the small values below
T_MAX ==
  3

MAX_EPISODES ==
  3

\* learn_policy: len(episode_rewards) >= 100 and episode_rewards[-100:]
ConvergenceWindow ==
  2

\* learn_policy: episode > 200
ConvergenceAfter ==
  1

\* how many run_episode calls a run makes directly
MaxEpisodeRuns ==
  2

\* how many episodes may have run when learn_policy is called
MaxEpisodesBefore ==
  0

LearnMaps ==
  {MapSG, MapWall, MapG}

\* run_episode's loop that goes on after the step that finished the episode
loop_continues_after_finish(finished, t) ==
  t < T_MAX

\* run_episode's loop without the limit on t
loop_continues_unbounded(finished, t) ==
  ~finished

\* run_episode: while not episode_finished and t < T_MAX
loop_continues(finished, t) ==
  ~finished /\ t < T_MAX

\* the update of run_episode made on the state the step arrived in
run_episode_update_advanced(q, state, action, res) ==
  update_q_value(q, Alpha, Gamma, res.ret_state, action, res.ret_reward,
                 res.ret_state)

\* run_episode: self.update_q_value(state, action, reward, next_state) with
\* the state before the step and what env.step(action) returned
run_episode_update(q, state, action, res) ==
  update_q_value(q, Alpha, Gamma, state, action, res.ret_reward,
                 res.ret_state)

\* the convergence test without its condition on the episode index
converged_without_index(episode_rewards, episode) ==
  LET n == Len(episode_rewards)
  IN  /\ n >= ConvergenceWindow
      /\ \A k \in (n - ConvergenceWindow + 1)..n :
           episode_rewards[k] = episode_rewards[n - ConvergenceWindow + 1]

\* learn_policy's convergence test: at least 100 rewards, the last 100 all
\* equal, and episode > 200
converged(episode_rewards, episode) ==
  LET n == Len(episode_rewards)
  IN  /\ n >= ConvergenceWindow
      /\ \A k \in (n - ConvergenceWindow + 1)..n :
           episode_rewards[k] = episode_rewards[n - ConvergenceWindow + 1]
      /\ episode > ConvergenceAfter

InitLearn ==
  /\ Init
  /\ construct_error = "none"
  /\ map \in LearnMaps
  /\ rewards = TestRewards
  /\ actions_model.kind = "deterministic"

\* run_episode up to its loop: the locals are set and env.reset() is called;
\* a ResetImpossibleError ends the call and that of learn_policy around it
BeginEpisode(in_learn) ==
  \E res \in {reset(map, None, FALSE, None)} :
    /\ current_state' = res.current_state
    /\ episode_finished' = res.episode_finished
    /\ last' = [NoCall EXCEPT !.op = "reset",
                              !.pre_state = current_state,
                              !.pre_finished = episode_finished,
                              !.error = res.error,
                              !.returned = res.returned,
                              !.ret_state = res.ret_state]
    /\ prev' = last
    /\ IF res.error = "none"
       THEN /\ pc' = "run_episode"
            /\ ep' = [NoEpisode EXCEPT !.state = res.ret_state,
                                       !.path = <<res.ret_state>>,
                                       !.in_learn = in_learn]
            /\ qcall' = qcall
            /\ lp' = lp
       ELSE /\ pc' = "idle"
            /\ ep' = NoEpisode
            /\ qcall' = [NoQCall EXCEPT
                           !.op = IF in_learn THEN "learn_policy"
                                  ELSE "run_episode",
                           !.pre_table = q_table,
                           !.error = res.error]
            /\ lp' = NoLearn
    /\ n_episodes' = n_episodes + 1
    /\ UNCHANGED <<map, rewards, actions_model, action_probs, construct_error>>
    /\ UNCHANGED <<q_table, n_updates, mcall>>

\* a call of RLAgent.run_episode
RunEpisode ==
  /\ pc = "idle"
  /\ construct_error = "none"
  /\ n_episodes < MaxEpisodeRuns
  /\ BeginEpisode(FALSE)
  /\ UNCHANGED current_epsilon

\* one pass of run_episode's loop: choose_action, env.step, update_q_value,
\* then state = next_state; the rendering assigns no field of the agent or
\* the environment
EpisodeStep ==
  /\ pc = "run_episode"
  /\ loop_continues(ep.episode_finished, ep.t)
  /\ \E action \in choose_action(q_table, current_epsilon, ep.state) :
       \E actual \in sample_action(actions_model, action) :
         \E res \in {step(map, rewards, current_state, episode_finished, actual)} :
           \E upd \in {run_episode_update(q_table, ep.state, action, res)} :
             /\ current_state' = res.current_state
             /\ episode_finished' = res.episode_finished
             /\ last' = [NoCall EXCEPT !.op = "step",
                                       !.action = action,
                                       !.actual = IF res.returned THEN actual ELSE -1,
                                       !.pre_state = current_state,
                                       !.pre_finished = episode_finished,
                                       !.error = res.error,
                                       !.returned = res.returned,
                                       !.ret_state = res.ret_state,
                                       !.ret_reward = res.ret_reward,
                                       !.ret_finished = res.ret_finished]
             /\ prev' = last
             /\ IF res.error = "none" /\ upd.error = "none"
                THEN /\ q_table' = upd.q_table
                     /\ qcall' = [NoQCall EXCEPT !.op = "update_q_value",
                                                  !.state = ep.state,
                                                  !.action = action,
                                                  !.reward = res.ret_reward,
                                                  !.next_state = res.ret_state,
                                                  !.pre_table = q_table]
                     /\ ep' = [ep EXCEPT
                                 !.t = ep.t + 1,
                                 !.total_reward = RAdd(ep.total_reward,
                                                       res.ret_reward),
                                 !.episode_finished = res.ret_finished,
                                 !.path = IF res.ret_state # None
                                          THEN Append(ep.path, res.ret_state)
                                          ELSE ep.path,
                                 !.state = res.ret_state]
                     /\ n_updates' = n_updates + 1
                     /\ pc' = pc
                     /\ lp' = lp
                ELSE /\ q_table' = q_table
                     /\ qcall' = [NoQCall EXCEPT
                                    !.op = IF ep.in_learn THEN "learn_policy"
                                           ELSE "run_episode",
                                    !.pre_table = q_table,
                                    !.error = IF res.error # "none"
                                              THEN res.error ELSE upd.error]
                     /\ n_updates' = n_updates
                     /\ ep' = NoEpisode
                     /\ pc' = "idle"
                     /\ lp' = NoLearn
  /\ UNCHANGED <<map, rewards, actions_model, action_probs, construct_error>>
  /\ UNCHANGED <<n_episodes, current_epsilon, mcall>>

\* run_episode called directly leaves its loop and returns total_reward
EpisodeReturn ==
  /\ pc = "run_episode"
  /\ ~ep.in_learn
  /\ ~loop_continues(ep.episode_finished, ep.t)
  /\ qcall' = [NoQCall EXCEPT !.op = "run_episode",
                              !.pre_table = q_table,
                              !.ret_reward = ep.total_reward]
  /\ ep' = NoEpisode
  /\ pc' = "idle"
  /\ UNCHANGED env_vars
  /\ UNCHANGED <<q_table, n_updates, n_episodes, current_epsilon, lp, mcall>>

\* a call of RLAgent.learn_policy, up to the head of its loop
LearnPolicy ==
  /\ pc = "idle"
  /\ construct_error = "none"
  /\ n_episodes <= MaxEpisodesBefore
  /\ lp' = NoLearn
  /\ pc' = "learn_policy"
  /\ UNCHANGED env_vars
  /\ UNCHANGED <<q_table, qcall, n_updates, n_episodes, current_epsilon, ep,
                 mcall>>

\* the head of learn_policy's loop: epsilon decays and run_episode is called
LearnEpisodeStart ==
  /\ pc = "learn_policy"
  /\ lp.episode < MAX_EPISODES
  /\ current_epsilon' = decay_epsilon(current_epsilon)
  /\ BeginEpisode(TRUE)

\* the rest of the loop body once run_episode has returned: the reward is
\* appended, the convergence test breaks out of the loop or extract_policy
\* assigns final_policy; best_reward and the average are only printed
LearnEpisodeEnd ==
  /\ pc = "run_episode"
  /\ ep.in_learn
  /\ ~loop_continues(ep.episode_finished, ep.t)
  /\ LET episode_rewards == Append(lp.episode_rewards, ep.total_reward)
     IN  IF converged(episode_rewards, lp.episode)
         THEN /\ lp' = [lp EXCEPT !.episode_rewards = episode_rewards,
                                  !.converged = TRUE]
              /\ pc' = "learn_return"
         ELSE /\ lp' = [lp EXCEPT !.episode_rewards = episode_rewards,
                                  !.final_policy = extract_policy(q_table, map),
                                  !.episode = lp.episode + 1]
              /\ pc' = "learn_policy"
  /\ ep' = NoEpisode
  /\ UNCHANGED env_vars
  /\ UNCHANGED <<q_table, qcall, n_updates, n_episodes, current_epsilon, mcall>>

\* learn_policy returns final_policy, after break or after the last episode
LearnPolicyReturn ==
  /\ \/ pc = "learn_return"
     \/ pc = "learn_policy" /\ lp.episode >= MAX_EPISODES
  /\ qcall' = [NoQCall EXCEPT !.op = "learn_policy",
                              !.pre_table = q_table,
                              !.policy = lp.final_policy,
                              !.converged = lp.converged,
                              !.episode_rewards = lp.episode_rewards]
  /\ lp' = NoLearn
  /\ pc' = "idle"
  /\ UNCHANGED env_vars
  /\ UNCHANGED <<q_table, n_updates, n_episodes, current_epsilon, ep, mcall>>

\* a call of RLAgent.extract_policy
ExtractPolicy ==
  /\ pc = "idle"
  /\ construct_error = "none"
  /\ n_episodes <= MaxEpisodeRuns
  /\ qcall' = [NoQCall EXCEPT !.op = "extract_policy",
                              !.pre_table = q_table,
                              !.policy = extract_policy(q_table, map)]
  /\ UNCHANGED env_vars
  /\ UNCHANGED <<q_table, n_updates, n_episodes, current_epsilon, pc, ep, lp,
                 mcall>>

\* a call of RLAgent.choose_action
ChooseAction ==
  /\ pc = "idle"
  /\ construct_error = "none"
  /\ n_episodes <= MaxEpisodeRuns
  /\ \E state \in States(map) :
       \E action \in choose_action(q_table, current_epsilon, state) :
         qcall' = [NoQCall EXCEPT !.op = "choose_action",
                                  !.state = state,
                                  !.action = action,
                                  !.pre_table = q_table]
  /\ UNCHANGED env_vars
  /\ UNCHANGED <<q_table, n_updates, n_episodes, current_epsilon, pc, ep, lp,
                 mcall>>

NextLearn ==
  \/ RunEpisode
  \/ EpisodeStep
  \/ EpisodeReturn
  \/ LearnPolicy
  \/ LearnEpisodeStart
  \/ LearnEpisodeEnd
  \/ LearnPolicyReturn
  \/ ExtractPolicy
  \/ ChooseAction

SpecLearn ==
  InitLearn /\ [][NextLearn]_vars

\* run_episode called again and again, and nothing else
NextEpisode ==
  \/ RunEpisode
  \/ EpisodeStep
  \/ EpisodeReturn

\* the environments of run_episode: the deterministic one and the one of
\* the main program, with confusion weights 0.8, 0.1, 0.1, 0
InitEpisode ==
  /\ Init
  /\ construct_error = "none"
  /\ map \in LearnMaps
  /\ rewards = TestRewards
  /\ action_probs \in {NoActionProbs, MainActionProbs}

SpecEpisode ==
  InitEpisode /\ [][NextEpisode]_vars

\* A call that has begun goes on: Python runs the next pass of run_episode's
\* loop, and the return once the loop has ended. Whether the caller makes
\* another call is left open.
SpecEpisodeFair ==
  /\ InitLearn
  /\ [][NextEpisode]_vars
  /\ WF_vars(EpisodeStep)
  /\ WF_vars(EpisodeReturn)

\* SpecLearn where a call that has begun goes on: the next pass of
\* run_episode's loop, its return, and the next statement of learn_policy's
\* loop. Whether the caller makes another call is left open.
SpecLearnFair ==
  /\ SpecLearn
  /\ WF_vars(EpisodeStep)
  /\ WF_vars(EpisodeReturn)
  /\ WF_vars(LearnEpisodeStart)
  /\ WF_vars(LearnEpisodeEnd)
  /\ WF_vars(LearnPolicyReturn)

\* ------------------------------------------------------------------------
\* Properties of the environment (checked under Spec)
\* ------------------------------------------------------------------------
StepCall(c) ==
  c.op = "step"

StepReturned(c) ==
  c.op = "step" /\ c.returned

ResetCall(c) ==
  c.op = "reset"

ResetReturned(c) ==
  c.op = "reset" /\ c.returned

\* C1: a step issued while the episode is finished raises NeedsResetError,
\* returns no result and leaves the episode state as it was.  The episode is
\* finished on a freshly constructed environment, and after every step that
\* returned finished = True, so the step that follows such a step raises.
C1_StepNeedsReset ==
  /\ (StepCall(last) /\ last.pre_finished) =>
       /\ last.error = "NeedsResetError"
       /\ ~last.returned
       /\ current_state = last.pre_state
       /\ episode_finished
  /\ (construct_error = "none" /\ last.op = "none") => episode_finished
  /\ (StepReturned(last) /\ last.ret_finished) => episode_finished
  /\ (StepReturned(prev) /\ prev.ret_finished /\ StepCall(last)) =>
       last.error = "NeedsResetError"
  /\ (prev.op = "none" /\ StepCall(last)) => last.error = "NeedsResetError"

\* a step raised NeedsResetError right after the step that finished the episode
C1_Witness ==
  /\ StepReturned(prev) /\ prev.ret_finished
  /\ StepCall(last) /\ last.error = "NeedsResetError"

\* C2: the step that follows a reset which failed with ResetImpossibleError
\* raises NeedsResetError, and the environment still awaits a reset.
C2_StepAfterFailedReset ==
  (ResetCall(prev) /\ prev.error = "ResetImpossibleError" /\ StepCall(last)) =>
    /\ last.error = "NeedsResetError"
    /\ episode_finished

\* C3: a step that returns hands out the reward of the state it left, also
\* when it enters a terminal state; the terminal state's reward comes with
\* the next step, the one that leaves it.
C3_RewardOfStateLeft ==
  /\ StepReturned(last) =>
       last.ret_reward = get_reward(map, rewards, last.pre_state)
  /\ (StepReturned(prev) /\ is_terminal(map, prev.ret_state)
        /\ ~is_terminal(map, prev.pre_state)) =>
       prev.ret_reward = rewards.normal
  /\ (StepReturned(prev) /\ is_terminal(map, prev.ret_state)
        /\ StepReturned(last)) =>
       last.ret_reward = get_reward(map, rewards, prev.ret_state)

\* a step entered the goal for the normal reward, the next one returned
\* the goal reward
C3_Witness ==
  /\ StepReturned(prev) /\ is_goal(map, prev.ret_state)
  /\ prev.ret_reward = rewards.normal
  /\ prev.ret_reward # rewards.goal
  /\ StepReturned(last) /\ last.ret_reward = rewards.goal

\* C4: for a step that returns, "the state left is terminal", "finished is
\* True" and "the next state is None" hold together or not at all; from a
\* non-terminal state the step returns finished = False and a cell of the map.
C4_TerminalFinishedSentinel ==
  StepReturned(last) =>
    /\ is_terminal(map, last.pre_state) <=> last.ret_finished
    /\ last.ret_finished <=> (last.ret_state = None)
    /\ ~is_terminal(map, last.pre_state) =>
         /\ ~last.ret_finished
         /\ last.ret_state \in Positions(map)

\* a step left a danger cell, and the step before it entered that cell
C4_Witness ==
  /\ StepReturned(prev) /\ ~prev.ret_finished /\ is_danger(map, prev.ret_state)
  /\ StepReturned(last) /\ last.ret_finished /\ last.ret_state = None

IsScenarioSG ==
  /\ map = MapSG
  /\ rewards = TestRewards
  /\ actions_model.kind = "deterministic"
  /\ construct_error = "none"

\* C5: on the map "SG", deterministic, rewards goal=10 normal=-5: reset
\* returns State(0,0); the first step(RIGHT) returns (State(0,1), -5, False);
\* the second step(RIGHT) returns (None, 10, True).
C5_ScenarioSG ==
  IsScenarioSG =>
    /\ (ResetCall(last) /\ last.state = None /\ ~last.random_start) =>
         /\ last.returned
         /\ last.ret_state = [r |-> 0, c |-> 0]
    /\ (ResetReturned(prev) /\ prev.ret_state = [r |-> 0, c |-> 0]
          /\ StepCall(last) /\ last.action = RIGHT) =>
         /\ last.returned
         /\ last.ret_state = [r |-> 0, c |-> 1]
         /\ last.ret_reward = Rat(-5, 1)
         /\ last.ret_finished = FALSE
    /\ (StepReturned(prev) /\ prev.pre_state = [r |-> 0, c |-> 0]
          /\ prev.action = RIGHT
          /\ StepCall(last) /\ last.action = RIGHT) =>
         /\ last.returned
         /\ last.ret_state = None
         /\ last.ret_reward = Rat(10, 1)
         /\ last.ret_finished = TRUE

\* the scenario's two steps were made
C5_Witness ==
  /\ IsScenarioSG
  /\ StepReturned(prev) /\ prev.pre_state = [r |-> 0, c |-> 0]
  /\ prev.action = RIGHT
  /\ StepReturned(last) /\ last.action = RIGHT /\ last.ret_finished

C7_ResetImpossible ==
  (ResetCall(last) /\ last.state = None /\ ~last.random_start
     /\ map_start(map) = None) =>
    /\ last.error = "ResetImpossibleError"
    /\ ~last.returned

\* such a reset was made on a map without a start cell
C7_Witness ==
  /\ ResetCall(last) /\ last.state = None /\ ~last.random_start
  /\ map_start(map) = None
  /\ last.error = "ResetImpossibleError"

\* C8: a successful reset, in whatever state the environment was, leaves the
\* episode running at the resolved state, which depends on the arguments
\* and the map only, and the step that follows does not raise
\* NeedsResetError.
C8_ResetAnytime ==
  /\ ResetReturned(last) =>
       /\ ~episode_finished
       /\ current_state = last.ret_state
       /\ last.state # None => current_state = last.state
       /\ (last.state = None /\ ~last.random_start) =>
            current_state = map_start(map)
  /\ (ResetReturned(prev) /\ StepCall(last)) =>
       /\ last.error = "none"
       /\ last.pre_state = prev.ret_state
  /\ construct_error = "none" => ENABLED Reset

\* a reset abandoned a running episode and the next step returned
C8_Witness ==
  /\ ResetReturned(prev) /\ ~prev.pre_finished
  /\ prev.pre_state # None /\ prev.pre_state # prev.ret_state
  /\ StepReturned(last)

\* ------------------------------------------------------------------------
\* Properties of the Q-table update (checked under SpecAgent)
\* ------------------------------------------------------------------------
UpdateReturned ==
  qcall.op = "update_q_value" /\ qcall.error = "none"

\* C9: update_q_value(s, a, r, s2) leaves every entry other than Q[s][a] as
\* it was, and the key set of the table and of every row as it was.
C9_UpdateIsLocal ==
  UpdateReturned =>
    /\ DOMAIN q_table = DOMAIN qcall.pre_table
    /\ \A s \in DOMAIN q_table :
         /\ DOMAIN q_table[s] = DOMAIN qcall.pre_table[s]
         /\ \A a \in DOMAIN q_table[s] :
              (s # qcall.state \/ a # qcall.action) =>
                q_table[s][a] = qcall.pre_table[s][a]

\* an update changed its entry while the row of the next state, another
\* state, held a value other than zero
C9_Witness ==
  /\ UpdateReturned
  /\ q_table[qcall.state][qcall.action]
       # qcall.pre_table[qcall.state][qcall.action]
  /\ qcall.next_state # None
  /\ qcall.next_state # qcall.state
  /\ \E a \in Action : qcall.pre_table[qcall.next_state][a] # Zero

\* the bootstrap term of the last update, from the table before the write
Bootstrap ==
  IF qcall.next_state = None
  THEN Zero
  ELSE RMax({qcall.pre_table[qcall.next_state][a] : a \in Action})

\* C10: update_q_value(s, a, r, s2) sets Q[s][a] to
\* old + alpha * (r + gamma * B - old), B being 0 when s2 is None and
\* otherwise the maximum of the row of s2 before the write.
C10_UpdateRule ==
  UpdateReturned =>
    LET old == qcall.pre_table[qcall.state][qcall.action]
    IN  q_table[qcall.state][qcall.action] =
          RAdd(old, RMul(Alpha, RSub(RAdd(qcall.reward,
                                          RMul(Gamma, Bootstrap)), old)))

\* an update bootstrapped from a row whose maximum is positive and is not
\* the value of the action taken
C10_Witness ==
  /\ UpdateReturned
  /\ qcall.next_state # None
  /\ RLess(Zero, Bootstrap)
  /\ qcall.pre_table[qcall.next_state][qcall.action] # Bootstrap

\* ------------------------------------------------------------------------
\* Properties of the transition model (checked under SpecMDP and Spec)
\* ------------------------------------------------------------------------
RECURSIVE SumProbs(_)
SumProbs(items) ==
  IF items = <<>> THEN Zero
  ELSE RAdd(items[1].prob, SumProbs(Tail(items)))

Deterministic ==
  actions_model.kind = "deterministic"

NextStatesQuery ==
  mcall.op = "get_next_states_and_probs"

\* C14, as stated: for a terminal state get_next_states_and_probs returns
\* the single item (None, 1.0), whichever action model the MDP has.
C14_TerminalSingleResult ==
  (NextStatesQuery /\ is_terminal(map, mcall.state)) =>
    mcall.result = <<[state |-> None, prob |-> One]>>

\* C14, amended: for a terminal state every item get_next_states_and_probs
\* returns has None as its state; the deterministic model gives the single
\* item (None, 1.0), the stochastic model four items (None, p), one for each
\* confusion with that confusion's weight, and the weights sum to 1.
C14_TerminalAllSentinel ==
  (NextStatesQuery /\ is_terminal(map, mcall.state)) =>
    /\ \A k \in DOMAIN mcall.result : mcall.result[k].state = None
    /\ Deterministic => mcall.result = <<[state |-> None, prob |-> One]>>
    /\ ~Deterministic =>
         /\ Len(mcall.result) = 4
         /\ \A k \in 1..4 :
              mcall.result[k].prob = actions_model.confusion_probs[k - 1]
    /\ SumProbs(mcall.result) = One

\* the stochastic model was asked about a terminal state and answered with
\* four items
C14_Witness ==
  /\ NextStatesQuery /\ is_terminal(map, mcall.state)
  /\ ~Deterministic
  /\ Len(mcall.result) = 4
  /\ mcall.result[1].prob # One

\* C15: for a non-terminal state get_next_states_and_probs returns one item
\* for each action the confusion model can apply (four for the stochastic
\* model, one for the deterministic), the item being the map's result of
\* that action (the same state when the move is blocked) with the action's
\* probability; items with equal states stay apart and the probabilities
\* sum to 1.
C15_NonTerminalEntries ==
  (NextStatesQuery /\ ~is_terminal(map, mcall.state)) =>
    /\ Len(mcall.result) = (IF Deterministic THEN 1 ELSE 4)
    /\ \A k \in DOMAIN mcall.result :
         LET applied == IF Deterministic THEN mcall.action
                        ELSE (mcall.action + (k - 1)) % 4
         IN  /\ mcall.result[k].state =
                  map_get_transition_result(map, mcall.state, applied)
             /\ mcall.result[k].prob =
                  (IF Deterministic THEN One
                   ELSE actions_model.confusion_probs[k - 1])
    /\ SumProbs(mcall.result) = One

\* the stochastic model answered for a non-terminal state with two items of
\* the same state, the state asked about, and one item of another state
C15_Witness ==
  /\ NextStatesQuery /\ ~is_terminal(map, mcall.state)
  /\ ~Deterministic
  /\ \E j, k \in DOMAIN mcall.result :
       /\ j # k
       /\ mcall.result[j].state = mcall.state
       /\ mcall.result[k].state = mcall.state
  /\ \E k \in DOMAIN mcall.result : mcall.result[k].state # mcall.state

\* C16: for accepted weights and an intended action a,
\* StochasticActions.get_actions_probs(a) has four items whose keys are the
\* four distinct actions (a + k) mod 4, k = NONE, RIGHT, BACKWARD, LEFT; the
\* renormalised forward weight is on a itself and the values sum to 1.
C16_FourDistinctActions ==
  (mcall.op = "get_actions_probs" /\ ~Deterministic) =>
    LET total == RAdd(RAdd(RAdd(action_probs.forward, action_probs.left),
                           action_probs.right), action_probs.backward)
        weight == [k \in 0..3 |->
                     CASE k = 0 -> action_probs.forward
                       [] k = 1 -> action_probs.right
                       [] k = 2 -> action_probs.backward
                       [] k = 3 -> action_probs.left]
    IN  /\ Len(mcall.result) = 4
        /\ Cardinality({mcall.result[k].action : k \in 1..4}) = 4
        /\ \A k \in 1..4 :
             /\ mcall.result[k].action = (mcall.action + (k - 1)) % 4
             /\ mcall.result[k].prob = RDiv(weight[k - 1], total)
        /\ mcall.result[1].action = mcall.action
        /\ SumProbs(mcall.result) = One

\* get_actions_probs answered for weights that had to be renormalised, with
\* a key that wrapped around
C16_Witness ==
  /\ mcall.op = "get_actions_probs" /\ ~Deterministic
  /\ mcall.result[1].prob # action_probs.forward
  /\ mcall.result[3].action < mcall.action
  /\ \A k \in 1..4 : RLess(Zero, mcall.result[k].prob)

\* C17: with the deterministic model get_actions_probs(a) is {a: 1.0} and
\* sample_action(a) is a, so a step of an environment built without
\* action_probs applies the intended action.
C17_DeterministicModel ==
  Deterministic =>
    /\ \A a \in Action :
         /\ get_actions_probs(actions_model, a) = <<[action |-> a, prob |-> One]>>
         /\ sample_action(actions_model, a) = {a}
    /\ StepReturned(last) =>
         /\ last.actual = last.action
         /\ last.ret_state =
              (IF is_terminal(map, last.pre_state) THEN None
               ELSE map_get_transition_result(map, last.pre_state, last.action))

\* a step of the deterministic environment moved the agent
C17_Witness ==
  /\ Deterministic
  /\ StepReturned(last)
  /\ last.ret_state # None
  /\ last.ret_state # last.pre_state

\* C18: Confusion.BACKWARD.apply_to(Confusion.BACKWARD.apply_to(a)) is a.
C18_BackwardTwice ==
  (mcall.op = "apply_to" /\ mcall.conf = BACKWARD) =>
    apply_to(BACKWARD, mcall.actual) = mcall.action

\* BACKWARD was applied to LEFT, the sum wrapping around to RIGHT
C18_Witness ==
  /\ mcall.op = "apply_to" /\ mcall.conf = BACKWARD
  /\ mcall.action = LEFT
  /\ mcall.actual = RIGHT

\* the reward of a cell by its role
RewardOfRole(rw, role) ==
  CASE role = "G" -> rw.goal
    [] role = "D" -> rw.danger
    [] OTHER      -> rw.normal

\* C19: get_reward(state) is the goal reward, the danger reward or the
\* normal reward by the role of state alone, and the reward a step returns
\* is that of the state left, whatever the intended action.
C19_RewardByRole ==
  /\ construct_error = "none" =>
       \A s \in Positions(map) :
         get_reward(map, rewards, s) = RewardOfRole(rewards, role_at(map, s))
  /\ StepReturned(last) =>
       last.ret_reward = RewardOfRole(rewards, role_at(map, last.pre_state))

\* two steps with different intended actions left the same state and
\* returned the same reward
C19_Witness ==
  /\ StepReturned(prev) /\ StepReturned(last)
  /\ prev.pre_state = last.pre_state
  /\ prev.action # last.action
  /\ prev.ret_reward = last.ret_reward

\* weights whose sum is 1e-6 or more away from 1
Malformed(ap) ==
  LET total == RAdd(RAdd(RAdd(ap.forward, ap.left), ap.right), ap.backward)
  IN  /\ ap.given
      /\ \/ RLeq(Rat(1000001, 1000000), total)
         \/ RLeq(total, Rat(999999, 1000000))

\* C20: construction with confusion weights whose sum is 1e-6 or more away
\* from 1 fails, so neither get_next_states_and_probs nor step, nor any
\* other method of the environment, is ever called on such an instance.
C20_MalformedWeightsRejected ==
  Malformed(action_probs) =>
    /\ construct_error = "AssertionError"
    /\ mcall.op \in {"none", "apply_to"}
    /\ last.op = "none"
    /\ ~ENABLED GetNextStatesAndProbs
    /\ ~ENABLED Step

\* construction was refused for weights exactly 1e-6 above 1, and the run
\* went on without an environment
C20_Witness ==
  /\ action_probs = EdgeActionProbs
  /\ construct_error = "AssertionError"
  /\ mcall.op = "apply_to"

\* ------------------------------------------------------------------------
\* Properties of the learning agent (checked under SpecLearn)
\* ------------------------------------------------------------------------
\* C11: the keys of the Q-table are the non-wall states of the map, the
\* terminal ones among them, each row has the keys UP, RIGHT, DOWN, LEFT, and
\* this stays so through choose_action, update_q_value, run_episode,
\* extract_policy and learn_policy.
C11_QTableKeys ==
  construct_error = "none" =>
    /\ DOMAIN q_table = {s \in Positions(map) : role_at(map, s) # "#"}
    /\ \A s \in DOMAIN q_table : DOMAIN q_table[s] = {UP, RIGHT, DOWN, LEFT}

\* learn_policy has returned after a run_episode called directly, and the
\* row of a terminal state holds a value other than zero
C11_Witness ==
  /\ qcall.op = "learn_policy" /\ qcall.error = "none"
  /\ n_episodes = MAX_EPISODES
  /\ \E s \in DOMAIN q_table :
       /\ is_terminal(map, s)
       /\ \E a \in Action : q_table[s][a] # Zero

ExtractReturned ==
  qcall.op = "extract_policy"

\* C12: extract_policy maps every state of the environment to an action
\* whose Q-value is maximal in the state's row; the call changes neither the
\* Q-table nor epsilon nor the environment's episode state, and a second call
\* right after the first returns the same mapping.
C12_ExtractPolicyPure ==
  /\ [](ExtractReturned =>
          /\ DOMAIN qcall.policy = States(map)
          /\ \A s \in States(map) :
               /\ qcall.policy[s] \in Action
               /\ \A b \in Action :
                    RLeq(q_table[s][b], q_table[s][qcall.policy[s]]))
  /\ [][ExtractPolicy =>
          UNCHANGED <<q_table, current_epsilon, current_state,
                      episode_finished>>]_vars
  /\ [][(ExtractReturned /\ ExtractPolicy) => qcall'.policy = qcall.policy]_vars

\* extract_policy returned, for some state, an action other than UP whose
\* value is above zero, and for another state a row with negative values
C12_Witness ==
  /\ ExtractReturned
  /\ \E s \in States(map) :
       /\ qcall.policy[s] # UP
       /\ RLess(Zero, q_table[s][qcall.policy[s]])
  /\ \E s \in States(map), b \in Action : RLess(q_table[s][b], Zero)

LearnReturned ==
  qcall.op = "learn_policy" /\ qcall.error = "none"

\* C13: the policy learn_policy returns is the greedy policy of the Q-table
\* as it is when learn_policy returns, whether the loop ran MAX_EPISODES
\* times or was left early on convergence.
C13_LearnReturnsGreedy ==
  LearnReturned => qcall.policy = extract_policy(q_table, map)

\* the same, for the returns that follow the last pass of the loop
C13_FullRunReturnsGreedy ==
  (LearnReturned /\ ~qcall.converged) =>
    qcall.policy = extract_policy(q_table, map)

\* ------------------------------------------------------------------------
\* Properties of RLProblem.sample_action (checked under SpecMDP)
\* ------------------------------------------------------------------------
RLSampleReturned ==
  mcall.op = "rl_sample_action" /\ mcall.error = "none"

Keys(dist) ==
  {dist.items[i].action : i \in DOMAIN dist.items}

WeightOf(dist, a) ==
  dist.items[CHOOSE i \in DOMAIN dist.items : dist.items[i].action = a].prob

\* C21: RLProblem.sample_action(action_probs) returns only a key of
\* action_probs whose weight is positive, hence the one action that carries
\* all the weight; without an argument it returns a member of
\* get_action_space(); and the call leaves the current state and the
\* finished flag of the episode as they were.
C21_SampleActionSupport ==
  /\ [](RLSampleReturned =>
          IF mcall.dist.given /\ mcall.dist.items # <<>>
          THEN /\ mcall.actual \in Keys(mcall.dist)
               /\ RLess(Zero, WeightOf(mcall.dist, mcall.actual))
               /\ \A a \in Keys(mcall.dist) :
                    WeightOf(mcall.dist, a) = One => mcall.actual = a
          ELSE mcall.actual \in get_action_space)
  /\ [][mcall'.op = "rl_sample_action" =>
          /\ current_state' = current_state
          /\ episode_finished' = episode_finished]_vars

\* a dictionary with keys of weight zero was sampled
C21_Witness ==
  /\ RLSampleReturned
  /\ mcall.dist = UpOnlyDist
  /\ mcall.actual = UP

\* ------------------------------------------------------------------------
\* Properties of run_episode and learn_policy (checked under SpecLearn)
\* ------------------------------------------------------------------------
\* run_episode has just made a pass of its loop
EpisodeIterated ==
  pc = "run_episode" /\ last.op = "step" /\ qcall.op = "update_q_value"

\* the rewards of the first t states of a path, each left by one step
RECURSIVE PathRewards(_, _)
PathRewards(path, t) ==
  IF t = 0 THEN Zero
  ELSE RAdd(PathRewards(path, t - 1), get_reward(map, rewards, path[t]))

\* C22: a pass of run_episode's loop calls choose_action on the current
\* state, env.step once, and update_q_value once with the state before the
\* step, the chosen action and the reward and next state that step returned;
\* only then the state advances to that next state. The value run_episode
\* returns is the sum of the rewards of all its steps.
C22_EpisodeIteration ==
  /\ [](EpisodeIterated =>
          /\ last.returned
          /\ last.action \in choose_action(qcall.pre_table, current_epsilon,
                                           last.pre_state)
          /\ qcall.state = last.pre_state
          /\ qcall.action = last.action
          /\ qcall.reward = last.ret_reward
          /\ qcall.next_state = last.ret_state
          /\ q_table = update_q_value(qcall.pre_table, Alpha, Gamma,
                                      last.pre_state, last.action,
                                      last.ret_reward, last.ret_state).q_table
          /\ ep.state = last.ret_state)
  /\ [](pc = "run_episode" =>
          ep.total_reward = PathRewards(ep.path, ep.t))
  /\ [][(pc = "run_episode" /\ qcall'.op = "run_episode"
           /\ qcall'.error = "none")
          => qcall'.ret_reward = ep.total_reward]_vars
  /\ [][(pc = "run_episode" /\ pc' \in {"learn_policy", "learn_return"})
          => lp'.episode_rewards[Len(lp'.episode_rewards)] = ep.total_reward]_vars

\* the second pass of an episode moved the agent and changed the table
C22_Witness ==
  /\ EpisodeIterated
  /\ ep.t >= 2
  /\ last.ret_state # None
  /\ last.ret_state # last.pre_state
  /\ q_table # qcall.pre_table
  /\ ep.total_reward # Zero

\* C23: run_episode always terminates: its loop ends when a step returns
\* finished = True or after T_MAX steps, whichever comes first, so an
\* episode makes at most T_MAX steps and T_MAX updates, also when no
\* terminal state is reached.
C23_EpisodeTerminates ==
  /\ [](pc = "run_episode" => ep.t <= T_MAX)
  /\ [][(pc = "run_episode" /\ (ep.episode_finished \/ ep.t >= T_MAX))
          => (last' = last /\ q_table' = q_table /\ pc' # "run_episode")]_vars
  /\ [][(pc = "run_episode" /\ ~ep.episode_finished /\ ep.t < T_MAX)
          => (pc' = "run_episode" => /\ ep'.t = ep.t + 1
                                     /\ last'.op = "step"
                                     /\ qcall'.op = "update_q_value")]_vars
  /\ (pc = "run_episode") ~> (pc # "run_episode")

\* an episode was cut off after T_MAX steps away from every terminal state
C23_Witness ==
  /\ pc = "run_episode"
  /\ ep.t = T_MAX
  /\ ~ep.episode_finished
  /\ current_state # None
  /\ ~is_terminal(map, current_state)

\* epsilon * epsilon_decay^k, floored at epsilon_min
RECURSIVE ScheduledEpsilon(_)
ScheduledEpsilon(k) ==
  IF k = 0 THEN RMax({EpsilonMin, Epsilon})
  ELSE RMax({EpsilonMin, RMul(ScheduledEpsilon(k - 1), EpsilonDecay)})

\* an episode of learn_policy on a new agent is running
LearnEpisodeRunning ==
  pc = "run_episode" /\ ep.in_learn

\* C24, as stated: learn_policy decays current_epsilon after each episode,
\* so its k-th episode (k = 0, 1, ...) runs with
\* max(epsilon_min, epsilon * epsilon_decay^k) and the first episode runs
\* with the initial epsilon.
C24_DecayAfterEpisode ==
  LearnEpisodeRunning => current_epsilon = ScheduledEpsilon(lp.episode)

\* what the code does: the decay comes first in the loop body, so the k-th
\* episode runs with max(epsilon_min, epsilon * epsilon_decay^(k+1))
C24_DecayBeforeEpisode ==
  LearnEpisodeRunning => current_epsilon = ScheduledEpsilon(lp.episode + 1)

\* the actions of maximal value in the row of s
Maximal(q, s) ==
  {a \in Action : \A b \in Action : RLeq(q[s][b], q[s][a])}

\* the first of a set of actions in the order UP, RIGHT, DOWN, LEFT
FirstOf(S) ==
  IF UP \in S THEN UP
  ELSE IF RIGHT \in S THEN RIGHT
  ELSE IF DOWN \in S THEN DOWN
  ELSE LEFT

\* C25: for a fixed Q-table the greedy choice is one action per state, the
\* first in the order UP, RIGHT, DOWN, LEFT among the actions of maximal
\* value; on a new table, all zero, it is UP for every state.
C25_GreedyFirstMaximal ==
  /\ \A s \in DOMAIN q_table :
       /\ get_best_action_for_state(q_table, s) = FirstOf(Maximal(q_table, s))
       /\ (\A a \in Action : q_table[s][a] = Zero)
            => get_best_action_for_state(q_table, s) = UP
  /\ ExtractReturned =>
       \A s \in States(map) : qcall.policy[s] = FirstOf(Maximal(q_table, s))
  /\ (ExtractReturned /\ q_table = init_q_table(map)) =>
       \A s \in States(map) : qcall.policy[s] = UP

\* extract_policy met a tie for the maximum that UP is not part of
C25_Witness ==
  /\ ExtractReturned
  /\ \E s \in States(map) :
       /\ qcall.policy[s] = RIGHT
       /\ q_table[s][DOWN] = q_table[s][RIGHT]
       /\ RLess(q_table[s][UP], q_table[s][RIGHT])

\* C27: on a map with a start cell, whatever run_episode calls are made,
\* run_episode never gets NeedsResetError from the environment, never calls
\* env.step once a step of the episode returned finished = True, never hands
\* None as the state to choose_action or update_q_value, and every state and
\* every next state other than None handed to update_q_value is a key of the
\* Q-table.
C27_EpisodeCallsAreSafe ==
  map_start(map) # None =>
    /\ last.error = "none"
    /\ qcall.error = "none"
    /\ last.op = "step" => (~last.pre_finished /\ last.pre_state # None)
    /\ qcall.op = "update_q_value" =>
         /\ qcall.state # None
         /\ qcall.state \in DOMAIN qcall.pre_table
         /\ qcall.next_state # None =>
              qcall.next_state \in DOMAIN qcall.pre_table
    /\ (pc = "run_episode" /\ ~ep.episode_finished /\ ep.t < T_MAX) =>
         /\ ep.state # None
         /\ ep.state = current_state
         /\ ep.state \in DOMAIN q_table
         /\ ~episode_finished
    /\ (pc = "run_episode" /\ ep.episode_finished) => episode_finished

\* an episode was cut off by T_MAX and the next one, after its reset, has
\* made a step and an update
C27_Witness ==
  /\ n_episodes >= 2
  /\ prev.op = "reset" /\ ~prev.pre_finished /\ prev.pre_state # None
  /\ StepReturned(last)
  /\ qcall.op = "update_q_value"
  /\ pc = "run_episode"

\* learn_policy is running
InLearnPolicy ==
  pc \in {"learn_policy", "learn_return"} \/ (pc = "run_episode" /\ ep.in_learn)

\* the last n entries of a sequence are all equal
LastEqual(rs, n) ==
  \A k \in (Len(rs) - n + 1)..Len(rs) : rs[k] = rs[Len(rs) - n + 1]

\* C28, as stated: learn_policy always terminates, after at most
\* MAX_EPISODES episodes; it stops early only at an episode index above 200
\* where the last 100 rewards are all equal, hence after no fewer than 202
\* episodes; and a policy is always returned.
C28_PolicyAlwaysReturned ==
  qcall.op = "learn_policy" =>
    /\ qcall.error = "none"
    /\ DOMAIN qcall.policy = States(map)
    /\ Len(qcall.episode_rewards) <= MAX_EPISODES
    /\ qcall.converged =>
         /\ Len(qcall.episode_rewards) >= ConvergenceAfter + 2
         /\ Len(qcall.episode_rewards) >= ConvergenceWindow
         /\ LastEqual(qcall.episode_rewards, ConvergenceWindow)

\* C28, amended: on a map with a start cell learn_policy always terminates,
\* after at most MAX_EPISODES episodes; it stops early only at an episode
\* index above 200 where the last 100 rewards are all equal, hence after no
\* fewer than 202 episodes; and it returns a policy for every state.
C28_LearnTerminates ==
  /\ [](InLearnPolicy =>
          /\ lp.episode <= MAX_EPISODES
          /\ Len(lp.episode_rewards) <= MAX_EPISODES)
  /\ []((map_start(map) # None /\ qcall.op = "learn_policy") =>
          /\ qcall.error = "none"
          /\ DOMAIN qcall.policy = States(map)
          /\ Len(qcall.episode_rewards) <= MAX_EPISODES
          /\ ~qcall.converged => Len(qcall.episode_rewards) = MAX_EPISODES
          /\ qcall.converged =>
               /\ Len(qcall.episode_rewards) >= ConvergenceAfter + 2
               /\ Len(qcall.episode_rewards) >= ConvergenceWindow
               /\ LastEqual(qcall.episode_rewards, ConvergenceWindow))
  /\ (map_start(map) # None /\ InLearnPolicy)
       ~> (pc = "idle" /\ qcall.op = "learn_policy" /\ qcall.error = "none")

\* learn_policy stopped early and returned a policy
C28_Witness ==
  /\ qcall.op = "learn_policy"
  /\ qcall.error = "none"
  /\ qcall.converged
  /\ pc = "idle"
  /\ Len(qcall.episode_rewards) = ConvergenceAfter + 2

\* values of epsilon at the floor and just above it: 0.01, 0.01005, 0.02
FloorProbes ==
  {EpsilonMin, Rat(201, 20000), Rat(1, 50)}

\* C29: epsilon_min <= current_epsilon <= epsilon in every state of the
\* agent; current_epsilon never increases during learn_policy, no other
\* operation changes it, and once it equals epsilon_min it stays there.
C29_EpsilonBounds ==
  /\ [](/\ RLeq(EpsilonMin, current_epsilon)
        /\ RLeq(current_epsilon, Epsilon))
  /\ [][RLeq(current_epsilon', current_epsilon)]_vars
  /\ [][current_epsilon' # current_epsilon => LearnEpisodeStart]_vars
  /\ [][current_epsilon = EpsilonMin => current_epsilon' = EpsilonMin]_vars
  /\ [](\A e \in FloorProbes \cup {current_epsilon} :
          /\ RLeq(EpsilonMin, decay_epsilon(e))
          /\ RLeq(decay_epsilon(e), e)
          /\ e = EpsilonMin => decay_epsilon(e) = EpsilonMin)

\* learn_policy returned after three decays; epsilon is below its initial
\* value and above the floor
C29_Witness ==
  /\ pc = "idle"
  /\ qcall.op = "learn_policy"
  /\ current_epsilon = RMul(RMul(RMul(Epsilon, EpsilonDecay), EpsilonDecay),
                            EpsilonDecay)
  /\ RLess(current_epsilon, Epsilon)
  /\ RLess(EpsilonMin, current_epsilon)

\* ------------------------------------------------------------------------
\* Properties of the environment's moves (checked under Spec)
\* ------------------------------------------------------------------------
\* the current state is None after the step that finished the episode, or a
\* cell of the grid that is not a wall
FreeOrDone ==
  \/ current_state = None /\ episode_finished
  \/ current_state # None /\ in_grid(map, current_state)
       /\ role_at(map, current_state) # "#"

\* C26: after a reset to a free state of the map the current state is, in
\* every state the environment reaches by steps, None (only after the step
\* that finished the episode) or a free state within the grid: no step
\* enters a wall or leaves the grid, and every next state other than None is
\* the state before the step (a blocked move) or its neighbour in the
\* direction of the action actually applied.
C26_StepsStayFree ==
  /\ [][(last'.op = "reset" /\ last'.returned
           /\ is_free(map, last'.ret_state))
          => (current_state' = last'.ret_state /\ FreeOrDone')]_vars
  /\ [][(last'.op = "step" /\ FreeOrDone)
          => /\ FreeOrDone'
             /\ last'.returned =>
                  /\ last'.pre_state = current_state
                  /\ current_state' = last'.ret_state
                  /\ last'.ret_state = None =>
                       /\ last'.ret_finished
                       /\ is_terminal(map, last'.pre_state)
                  /\ last'.ret_state # None =>
                       \/ last'.ret_state = last'.pre_state
                       \/ last'.ret_state =
                            vec_add(last'.pre_state, to_vec(last'.actual))]_vars

\* a step away from the intended action ran into a wall cell of the grid
C26_Witness ==
  /\ StepReturned(last)
  /\ is_free(map, last.pre_state)
  /\ last.actual # last.action
  /\ last.ret_state = last.pre_state
  /\ in_grid(map, vec_add(last.pre_state, to_vec(last.actual)))
  /\ role_at(map, vec_add(last.pre_state, to_vec(last.actual))) = "#"

\* C30: the construction of an RLProblem on a map without a goal cell
\* fails; on a map with a goal cell it succeeds (given confusion weights
\* that the action model accepts) and leaves the environment waiting for a
\* reset, its current state a goal state.
C30_ConstructionNeedsGoal ==
  /\ map_goals(map) = {} =>
       /\ construct_error # "none"
       /\ action_probs = NoActionProbs => construct_error = "StopIteration"
       /\ last.op = "none"
  /\ map_goals(map) # {} =>
       /\ construct_error \in {"none", "AssertionError"}
       /\ construct_error = "AssertionError" =>
            ~weights_accepted(action_probs.forward, action_probs.left,
                              action_probs.right, action_probs.backward)
       /\ (construct_error = "none" /\ last.op = "none") =>
            /\ episode_finished
            /\ current_state \in map_goals(map)
       /\ (construct_error = "none" /\ prev.op = "none" /\ last.op = "step") =>
            last.error = "NeedsResetError"

\* the construction on the map without a goal was refused
C30_Witness ==
  /\ map = MapNoGoal
  /\ action_probs = NoActionProbs
  /\ construct_error = "StopIteration"
  /\ current_state = None

====
